---- MODULE Spec2Model ----
(***************************************************************************)
(* Model of orbit-mapper's orbit core:                                     *)
(*   src/src/orbit/EphemerisPropagator.{h,cpp}                             *)
(*   src/src/orbit/Sgp4Propagator.{h,cpp}                                  *)
(*   src/src/orbit/Kepler.cpp, src/src/orbit/OrbitSampler.cpp              *)
(*                                                                         *)
(* Specifications.  Spec: one EphemerisPropagator.  SpecSgp4: one          *)
(* Sgp4Propagator.  SpecRemap: the axis remap of the three producers.      *)
(* SpecTle: extractOrbitalElements and buildSyntheticTleFromEciState.      *)
(* SpecKepler: positionEciFromElements.  SpecSampler: sampleOrbitPolyline. *)
(*                                                                         *)
(* Numbers.  The code computes in IEEE doubles.  The model computes in     *)
(* exact rationals <<n, d>> (d > 0, lowest terms), so unit conversion and  *)
(* interpolation are computed, not assumed.  Times are integer clock ticks *)
(* (std::chrono::system_clock::time_point is an integer tick count); the   *)
(* zero time point is tick 0.                                              *)
(*                                                                         *)
(* Environment.  Two computations are outside what can be evaluated here:  *)
(* the floating-point orbital-element geometry of                          *)
(* buildSyntheticTleFromEciState and the external libsgp4 library.  Their  *)
(* outcomes (TLE built or not, libsgp4::Tle / libsgp4::SGP4 constructor    *)
(* throwing or not, FindPosition throwing or not) are nondeterministic     *)
(* choices made where the code makes the call.                             *)
(***************************************************************************)
EXTENDS Integers, Sequences, FiniteSets, TLC

\* input .. lastRet: one EphemerisPropagator and its last query;
\* keplerianElements_ is its fourth data member and lastCall the last call of
\* one of its accessors.
\* sgp: one Sgp4Propagator on its own and its last call.
\* args, result: the arguments of one call of a free function, and its result
\* (empty before the call, one element after it).
VARIABLES input, samples_, sgp4_, sgp4BySample_, pc, lastT, lastRet,
          keplerianElements_, lastCall,
          sgp, args, result

vars == <<input, samples_, sgp4_, sgp4BySample_, pc, lastT, lastRet,
          keplerianElements_, lastCall,
          sgp, args, result>>

\* The variables the EphemerisPropagator machine does not use.
others == <<sgp, args, result>>

OthersIdle == sgp = "none" /\ args = "none" /\ result = <<>>

\* Longest constructor argument list.
MaxSamples == 3

\* Sample timestamps are the ticks 2*k for k in 0..MaxStep (k = 0 is the zero
\* time point); propagate is queried at every tick from 0 to 2*MaxStep + 1, so
\* queries fall before, on, between (midpoints included) and after samples.
MaxStep == 2

SampleTimes == {2 * k : k \in 0..MaxStep}

QueryTimes == 0..(2 * MaxStep + 1)

----------------------------------------------------------------------------
\* Exact rational arithmetic standing for the code's double arithmetic.

Abs(x) == IF x < 0 THEN -x ELSE x

RECURSIVE GCD(_, _)
GCD(a, b) == IF b = 0 THEN a ELSE GCD(b, a % b)

RNorm(n, d) ==
    LET g == GCD(Abs(n), Abs(d))
        s == IF d < 0 THEN -1 ELSE 1
    IN  <<(s * n) \div g, (s * d) \div g>>

R(n) == <<n, 1>>

RAdd(a, b) == RNorm(a[1] * b[2] + b[1] * a[2], a[2] * b[2])

RSub(a, b) == RNorm(a[1] * b[2] - b[1] * a[2], a[2] * b[2])

RMul(a, b) == RNorm(a[1] * b[1], a[2] * b[2])

RDiv(a, b) == RNorm(a[1] * b[2], a[2] * b[1])

RNeg(a) == <<-a[1], a[2]>>

RLess(a, b) == a[1] * b[2] < b[1] * a[2]

\* std::clamp(x, lo, hi)
RClamp(x, lo, hi) == IF RLess(x, lo) THEN lo ELSE IF RLess(hi, x) THEN hi ELSE x

\* EphemerisPropagator::kEarthRadiusKm = 6378.137
kEarthRadiusKm == <<6378137, 1000>>

\* EciState{}: value-initialised arrays
ZeroState == [position |-> <<R(0), R(0), R(0)>>, velocity |-> <<R(0), R(0), R(0)>>]

----------------------------------------------------------------------------
\* Constructor arguments.  The k-th element of the argument list carries a
\* state vector of its own, so that samples stay distinguishable whatever
\* their timestamps are; the vectors are not collinear in k, so no sample is
\* an interpolation of two others.

InputPositionKm(k) == <<R(k * k), R(2 * k * k + 1), R(-(k * k * k))>>

InputVelocityKmPerS(k) == <<R(-(k * k)), R(k * k * k + 1), R(k * k + 2)>>

EphemerisSample(k, t, cov) ==
    [t |-> t,
     positionKm |-> InputPositionKm(k),
     velocityKmPerS |-> InputVelocityKmPerS(k),
     hasCovarianceUpper |-> cov]

InputLists ==
    UNION {{[k \in 1..n |-> EphemerisSample(k, ts[k], cs[k])] :
                ts \in [1..n -> SampleTimes], cs \in [1..n -> BOOLEAN]} :
           n \in 0..MaxSamples}

----------------------------------------------------------------------------
\* Sgp4Propagator (src/src/orbit/Sgp4Propagator.cpp), non-stub build.

\* What the environment can answer to one synthesis attempt:
\*   "noTle"      buildSyntheticTleFromEciState returns false
\*   "tleThrows"  the TLE is built, libsgp4::Tle(line1, line2) throws
\*   "sgp4Throws" the TLE parses, libsgp4::SGP4(tle) throws
\*   "ok"         both library objects are constructed
\* Both throwing cases leave ctx_->sgp4 null, which is all that propagate
\* reads; the constructor of EphemerisPropagator is explored with the first
\* of them.
SynthOutcomes == {"noTle", "tleThrows", "ok"}

\* buildSyntheticTleFromEciState: true iff every geometric guard passes and
\* both lines come out 69 characters long.  The guards are floating-point
\* geometry over (r, v); their verdict is the environment's.
buildSyntheticTleFromEciState(s, outcome) == outcome # "noTle"

\* The two lines the builder emits are a function of its arguments.  The
\* mean motion they carry is positive (line 330); 16 rev/day stands for it.
SyntheticTle(s) ==
    [epoch |-> s.t, rKm |-> s.positionKm, vKmPerS |-> s.velocityKmPerS,
     meanMotion |-> 16]

\* Sgp4Propagator::Sgp4Propagator: always returns an object; a library
\* exception is swallowed and leaves ctx_->sgp4 (and possibly ctx_->tle) null.
Sgp4Propagator_ctor(lines, outcome) ==
    [lines |-> lines,
     tle |-> outcome \in {"sgp4Throws", "ok"},
     sgp4 |-> outcome = "ok"]

\* libsgp4::SGP4::FindPosition(dt): external library.  Stand-in: the TLE's
\* state advanced along its velocity, displaced by 1000 km on every axis, so
\* that a library result is never equal to a stored or interpolated sample.
LibFindPosition(lines, t) ==
    [Position |-> [i \in 1..3 |->
                      RAdd(R(1000),
                           RAdd(lines.rKm[i], RMul(lines.vKmPerS[i], R(t - lines.epoch))))],
     Velocity |-> lines.vKmPerS]

\* Variant of Sgp4Propagator::propagate: a library failure goes unnoticed.
Sgp4Propagator_propagate_ignoreFailure(p, t, libThrows) ==
    IF ~p.sgp4 THEN ZeroState
    ELSE LET eci == LibFindPosition(p.lines, t)
             pos == eci.Position
             vel == eci.Velocity
         IN  [position |-> <<RDiv(pos[1], kEarthRadiusKm),
                             RDiv(pos[3], kEarthRadiusKm),
                             RDiv(RNeg(pos[2]), kEarthRadiusKm)>>,
              velocity |-> <<RDiv(vel[1], kEarthRadiusKm),
                             RDiv(vel[3], kEarthRadiusKm),
                             RDiv(RNeg(vel[2]), kEarthRadiusKm)>>]

\* Sgp4Propagator::propagate: zero state without a library propagator or when
\* the library throws; else km -> Earth radii and (x,y,z) -> (x,z,-y).
Sgp4Propagator_propagate(p, t, libThrows) ==
    IF ~p.sgp4 THEN ZeroState
    ELSE IF libThrows THEN ZeroState
    ELSE LET eci == LibFindPosition(p.lines, t)
             pos == eci.Position
             vel == eci.Velocity
         IN  [position |-> <<RDiv(pos[1], kEarthRadiusKm),
                             RDiv(pos[3], kEarthRadiusKm),
                             RDiv(RNeg(pos[2]), kEarthRadiusKm)>>,
              velocity |-> <<RDiv(vel[1], kEarthRadiusKm),
                             RDiv(vel[3], kEarthRadiusKm),
                             RDiv(RNeg(vel[2]), kEarthRadiusKm)>>]

\* Every state one call sgp4->propagate(t) can return.
Sgp4Returns(p, t) == {Sgp4Propagator_propagate(p, t, thr) : thr \in BOOLEAN}

\* Sgp4Propagator::tryGetMeanElements: reads ctx_->tle only; the Tle
\* accessors do not throw.
Sgp4Propagator_tryGetMeanElements(p) == p.tle

\* Sgp4Propagator::tryGetOrbitalPeriodSeconds: reads ctx_->tle only; false
\* for a mean motion <= 0, else 86400 / meanMotion, which is finite and > 0.
Sgp4Propagator_tryGetOrbitalPeriodSeconds(p) ==
    IF ~p.tle THEN [ok |-> FALSE, periodSeconds |-> R(0)]
    ELSE IF p.lines.meanMotion <= 0 THEN [ok |-> FALSE, periodSeconds |-> R(0)]
    ELSE [ok |-> TRUE, periodSeconds |-> RDiv(R(86400), R(p.lines.meanMotion))]

----------------------------------------------------------------------------
\* EphemerisPropagator::EphemerisPropagator

\* Variant of RemoveUnsetTimes: the erase is forgotten.
RemoveUnsetTimes_keepAll(list) == list

\* samples_.erase(std::remove_if(... s.t == time_point{} ...)): keeps the
\* other samples in their order.
RemoveUnsetTimes(list) == SelectSeq(list, LAMBDA s : s.t # 0)

IsSortedByTime(seq) == \A i \in 1..(Len(seq) - 1) : ~(seq[i + 1].t < seq[i].t)

\* std::sort with comparator a.t < b.t: some permutation of the range in which
\* no element is less than its predecessor; the order of equivalent elements
\* is not specified.
StdSortResults(list) ==
    LET n == Len(list)
    IN  {srt \in {[i \in 1..n |-> list[p[i]]] : p \in Permutations(1..n)} :
            IsSortedByTime(srt)}

anyHaveCov(S) == \E k \in 1..Len(S) : S[k].hasCovarianceUpper

\* The indices at which the constructor attempts a synthesis.
SynthAttempts(S) ==
    IF Len(S) = 1 THEN {1}
    ELSE IF Len(S) > 1 /\ anyHaveCov(S)
         THEN {k \in 1..Len(S) : S[k].hasCovarianceUpper}
         ELSE {}

\* lines 420-429: unique_ptr modelled as a sequence of length 0 or 1.
\* make_unique<Sgp4Propagator> never throws a library exception, because the
\* Sgp4Propagator constructor swallows it: the catch block is not reached.
Ctor_sgp4(S, oc) ==
    IF Len(S) = 1 /\ buildSyntheticTleFromEciState(S[1], oc[1])
    THEN <<Sgp4Propagator_ctor(SyntheticTle(S[1]), oc[1])>>
    ELSE <<>>

\* Variant of Ctor_sgp4BySample: the array is kept when no slot was filled.
Ctor_sgp4BySample_keepsEmptySlots(S, oc) ==
    IF Len(S) > 1 /\ anyHaveCov(S)
    THEN [k \in 1..Len(S) |->
            IF S[k].hasCovarianceUpper
               /\ buildSyntheticTleFromEciState(S[k], oc[k])
            THEN <<Sgp4Propagator_ctor(SyntheticTle(S[k]), oc[k])>>
            ELSE <<>>]
    ELSE <<>>

\* lines 430-462
Ctor_sgp4BySample(S, oc) ==
    IF Len(S) > 1 /\ anyHaveCov(S)
    THEN LET slots == [k \in 1..Len(S) |->
                         IF S[k].hasCovarianceUpper
                            /\ buildSyntheticTleFromEciState(S[k], oc[k])
                         THEN <<Sgp4Propagator_ctor(SyntheticTle(S[k]), oc[k])>>
                         ELSE <<>>]
             anyOk == \E k \in 1..Len(S) : slots[k] # <<>>
         IN  IF anyOk THEN slots ELSE <<>>
    ELSE <<>>

\* hasSgp4()
hasSgp4 == sgp4_ # <<>> \/ sgp4BySample_ # <<>>

\* extractOrbitalElements(r, v, out) as the constructor sees it: a pure
\* function of the state vector (its guards are modelled exactly, over a table
\* of state vectors, by the operator of this name further down).  The state
\* vectors of the constructor arguments are markers of the argument index k;
\* the odd-numbered ones stand for orbits the extraction accepts, the
\* even-numbered ones for orbits one of its guards rejects.
ExtractionSucceeds(s) == s.positionKm[1][1] % 2 = 1

\* The OrbitalElements written through the out-parameter: determined by the
\* state vector, which stands for them.
ExtractedElements(s) == [rKm |-> s.positionKm, vKmPerS |-> s.velocityKmPerS]

\* OrbitalElements{}: the default member values, which no state vector
\* yields; the zero vector stands for them.
DefaultElements == [rKm |-> <<R(0), R(0), R(0)>>, vKmPerS |-> <<R(0), R(0), R(0)>>]

\* Variant of Ctor_keplerianElements: the elements come from the last sample.
Ctor_keplerianElements_fromLast(S) ==
    IF Len(S) # 0 /\ ExtractionSucceeds(S[Len(S)])
    THEN <<ExtractedElements(S[Len(S)])>>
    ELSE <<>>

\* lines 409-416: keplerianElements_ is set iff the list is not empty and the
\* extraction from samples_[0] returns true.
Ctor_keplerianElements(S) ==
    IF Len(S) # 0 /\ ExtractionSucceeds(S[1])
    THEN <<ExtractedElements(S[1])>>
    ELSE <<>>

----------------------------------------------------------------------------
\* The accessors of EphemerisPropagator.  Each is const.

\* Variant of isEpochStateSet: every sample has to carry a covariance.
isEpochStateSet_allCov(S, sg, by) ==
    IF Len(S) = 0 THEN FALSE
    ELSE IF sg # <<>> \/ by # <<>> THEN TRUE
    ELSE \A k \in 1..Len(S) : S[k].hasCovarianceUpper

\* isEpochStateSet()
isEpochStateSet(S, sg, by) ==
    IF Len(S) = 0 THEN FALSE
    ELSE IF sg # <<>> \/ by # <<>> THEN TRUE
    ELSE \E k \in 1..Len(S) : S[k].hasCovarianceUpper

\* tryGetOrbitalPeriodSeconds(out): the single propagator's answer, else the
\* answer of the first per-sample propagator that has one, else false.
tryGetOrbitalPeriodSeconds(sg, by) ==
    IF sg # <<>> THEN Sgp4Propagator_tryGetOrbitalPeriodSeconds(sg[1])
    ELSE LET has == {k \in 1..Len(by) :
                        /\ by[k] # <<>>
                        /\ Sgp4Propagator_tryGetOrbitalPeriodSeconds(by[k][1]).ok}
         IN  IF has = {} THEN [ok |-> FALSE, periodSeconds |-> R(0)]
             ELSE Sgp4Propagator_tryGetOrbitalPeriodSeconds(
                      by[CHOOSE k \in has : \A j \in has : k <= j][1])

\* Variant of tryGetKeplerianElements: default elements when none are stored.
tryGetKeplerianElements_defaultWhenUnset(kep, outBefore) ==
    IF kep # <<>> THEN [ok |-> TRUE, out |-> kep[1]]
    ELSE [ok |-> TRUE, out |-> DefaultElements]

\* tryGetKeplerianElements(out): writes out only when it returns true.
tryGetKeplerianElements(kep, outBefore) ==
    IF kep # <<>> THEN [ok |-> TRUE, out |-> kep[1]]
    ELSE [ok |-> FALSE, out |-> outBefore]

\* What the caller's OrbitalElements may hold before the call: a default
\* object, or elements obtained from another satellite.
CallerElements == {DefaultElements, ExtractedElements(EphemerisSample(0, 0, FALSE))}

\* No accessor has been called yet.
NoCall ==
    [fn |-> "none", ok |-> FALSE, outBefore |-> DefaultElements,
     out |-> DefaultElements, periodSeconds |-> R(0)]

----------------------------------------------------------------------------
\* EphemerisPropagator::propagate and its helpers

\* Variant of toRenderState: the axis remap is forgotten.
toRenderState_noRemap(s) ==
    [position |-> [i \in 1..3 |-> RDiv(s.positionKm[i], kEarthRadiusKm)],
     velocity |-> [i \in 1..3 |-> RDiv(s.velocityKmPerS[i], kEarthRadiusKm)]]

toRenderState(s) ==
    [position |-> <<RDiv(s.positionKm[1], kEarthRadiusKm),
                    RDiv(s.positionKm[3], kEarthRadiusKm),
                    RDiv(RNeg(s.positionKm[2]), kEarthRadiusKm)>>,
     velocity |-> <<RDiv(s.velocityKmPerS[1], kEarthRadiusKm),
                    RDiv(s.velocityKmPerS[3], kEarthRadiusKm),
                    RDiv(RNeg(s.velocityKmPerS[2]), kEarthRadiusKm)>>]

\* Variant of lerp: the velocity is taken from a instead of interpolated.
lerp_positionOnly(a, b, alpha) ==
    LET al == RClamp(alpha, R(0), R(1))
        s == [t |-> a.t,
              positionKm |-> [i \in 1..3 |->
                  RAdd(a.positionKm[i], RMul(al, RSub(b.positionKm[i], a.positionKm[i])))],
              velocityKmPerS |-> a.velocityKmPerS,
              hasCovarianceUpper |-> FALSE]
    IN  toRenderState(s)

lerp(a, b, alpha) ==
    LET al == RClamp(alpha, R(0), R(1))
        s == [t |-> a.t,
              positionKm |-> [i \in 1..3 |->
                  RAdd(a.positionKm[i], RMul(al, RSub(b.positionKm[i], a.positionKm[i])))],
              velocityKmPerS |-> [i \in 1..3 |->
                  RAdd(a.velocityKmPerS[i],
                       RMul(al, RSub(b.velocityKmPerS[i], a.velocityKmPerS[i])))],
              hasCovarianceUpper |-> FALSE]
    IN  toRenderState(s)

\* Variant of LowerBound: the last element not less than t.
LowerBound_lastNotLess(S, t) ==
    IF \E i \in 1..Len(S) : ~(S[i].t < t)
    THEN CHOOSE i \in 1..Len(S) :
            ~(S[i].t < t) /\ \A j \in (i + 1)..Len(S) : S[j].t < t
    ELSE Len(S) + 1

\* std::lower_bound(begin, end, t, s.t < tp): the first position whose sample
\* is not before t; Len + 1 stands for end().  Positions are 1-based.
LowerBound(S, t) ==
    IF \E i \in 1..Len(S) : ~(S[i].t < t)
    THEN CHOOSE i \in 1..Len(S) :
            ~(S[i].t < t) /\ \A j \in 1..(i - 1) : S[j].t < t
    ELSE Len(S) + 1

\* Variant of NearestIdx: the tie goes to the later neighbour (da < db).
NearestIdx_strictTie(S, t) ==
    LET it == LowerBound(S, t)
    IN  IF it = 1 THEN 1
        ELSE IF it = Len(S) + 1 THEN Len(S)
        ELSE LET bIdx == it
                 aIdx == bIdx - 1
                 da == IF t >= S[aIdx].t THEN t - S[aIdx].t ELSE S[aIdx].t - t
                 db == IF t >= S[bIdx].t THEN t - S[bIdx].t ELSE S[bIdx].t - t
             IN  IF da < db THEN aIdx ELSE bIdx

\* lines 506-523: the index the per-sample path selects.
NearestIdx(S, t) ==
    LET it == LowerBound(S, t)
    IN  IF it = 1 THEN 1
        ELSE IF it = Len(S) + 1 THEN Len(S)
        ELSE LET bIdx == it
                 aIdx == bIdx - 1
                 da == IF t >= S[aIdx].t THEN t - S[aIdx].t ELSE S[aIdx].t - t
                 db == IF t >= S[bIdx].t THEN t - S[bIdx].t ELSE S[bIdx].t - t
             IN  IF da <= db THEN aIdx ELSE bIdx

\* lines 505 and 525: the per-sample path returns a result.
PerSampleDelegates(S, by, t) ==
    /\ by # <<>>
    /\ Len(by) = Len(S)
    /\ NearestIdx(S, t) <= Len(by)
    /\ by[NearestIdx(S, t)] # <<>>

\* Variant of InterpolationPath: the two clamping tests are exchanged.
InterpolationPath_lastFirst(S, t) ==
    IF Len(S) = 1 THEN toRenderState(S[1])
    ELSE IF t >= S[Len(S)].t THEN toRenderState(S[Len(S)])
    ELSE IF t <= S[1].t THEN toRenderState(S[1])
    ELSE LET it == LowerBound(S, t)
         IN  IF it = 1 THEN toRenderState(S[it])
             ELSE LET b == S[it]
                      a == S[it - 1]
                      dt == b.t - a.t
                  IN  IF dt <= 0 THEN toRenderState(a)
                      ELSE lerp(a, b, RDiv(R(t - a.t), R(dt)))

\* lines 530-561: single-sample passthrough, clamping, interpolation.
InterpolationPath(S, t) ==
    IF Len(S) = 1 THEN toRenderState(S[1])
    ELSE IF t <= S[1].t THEN toRenderState(S[1])
    ELSE IF t >= S[Len(S)].t THEN toRenderState(S[Len(S)])
    ELSE LET it == LowerBound(S, t)
         IN  IF it = 1 THEN toRenderState(S[it])
             ELSE LET b == S[it]
                      a == S[it - 1]
                      dt == b.t - a.t
                  IN  IF dt <= 0 THEN toRenderState(a)
                      ELSE lerp(a, b, RDiv(R(t - a.t), R(dt)))

\* lines 542-561, taken apart: the iterator std::lower_bound returns, the
\* return statement that is executed, and the fraction handed to lerp (0 when
\* lerp is not called).
BracketingSearch(S, t) ==
    LET it == LowerBound(S, t)
    IN  IF it = 1 THEN [it |-> it, branch |-> "begin", u |-> R(0)]
        ELSE LET b == S[it]
                 a == S[it - 1]
                 dt == b.t - a.t
             IN  IF dt <= 0 THEN [it |-> it, branch |-> "dtNotPositive", u |-> R(0)]
                 ELSE [it |-> it, branch |-> "lerp", u |-> RDiv(R(t - a.t), R(dt))]

\* Variant of propagate: the single-sample passthrough is tested before sgp4_.
propagate_passthroughFirst(S, sg, by, t, libThrows) ==
    IF Len(S) = 0 THEN ZeroState
    ELSE IF Len(S) = 1 THEN toRenderState(S[1])
    ELSE IF sg # <<>> THEN Sgp4Propagator_propagate(sg[1], t, libThrows)
    ELSE IF PerSampleDelegates(S, by, t)
         THEN Sgp4Propagator_propagate(by[NearestIdx(S, t)][1], t, libThrows)
         ELSE InterpolationPath(S, t)

\* Variant of propagate: an empty selected slot is replaced by the first
\* occupied slot of the per-sample array.
propagate_otherSlot(S, sg, by, t, libThrows) ==
    IF Len(S) = 0 THEN ZeroState
    ELSE IF sg # <<>> THEN Sgp4Propagator_propagate(sg[1], t, libThrows)
    ELSE IF by # <<>> /\ Len(by) = Len(S)
         THEN LET idx == NearestIdx(S, t)
                  use == IF by[idx] # <<>> THEN idx
                         ELSE CHOOSE k \in 1..Len(by) :
                                 by[k] # <<>> /\ \A j \in 1..(k - 1) : by[j] = <<>>
              IN  Sgp4Propagator_propagate(by[use][1], t, libThrows)
         ELSE InterpolationPath(S, t)

propagate(S, sg, by, t, libThrows) ==
    IF Len(S) = 0 THEN ZeroState
    ELSE IF sg # <<>> THEN Sgp4Propagator_propagate(sg[1], t, libThrows)
    ELSE IF PerSampleDelegates(S, by, t)
         THEN Sgp4Propagator_propagate(by[NearestIdx(S, t)][1], t, libThrows)
         ELSE InterpolationPath(S, t)

----------------------------------------------------------------------------
\* The state machine: one EphemerisPropagator, constructed once from an
\* argument list and then queried.

Init ==
    /\ input \in InputLists
    /\ samples_ = <<>>
    /\ sgp4_ = <<>>
    /\ sgp4BySample_ = <<>>
    /\ pc = "new"
    /\ lastT = 0
    /\ lastRet = ZeroState
    /\ keplerianElements_ = <<>>
    /\ lastCall = NoCall
    /\ OthersIdle

\* EphemerisPropagator(samples): filter, sort, extract, synthesize.
Construct ==
    /\ pc = "new"
    /\ \E S \in StdSortResults(RemoveUnsetTimes(input)) :
         \E oc \in [SynthAttempts(S) -> SynthOutcomes] :
            /\ samples_' = S
            /\ sgp4_' = Ctor_sgp4(S, oc)
            /\ keplerianElements_' = Ctor_keplerianElements(S)
            /\ sgp4BySample_' = Ctor_sgp4BySample(S, oc)
    /\ pc' = "built"
    /\ UNCHANGED <<input, lastT, lastRet, lastCall, others>>

\* propagate(t) on the constructed object.  The method is const: it leaves
\* every field unchanged, so a later call returns what a first call with the
\* same argument returns, and one call per behaviour covers them all.
Propagate ==
    /\ pc = "built"
    /\ \E t \in QueryTimes, libThrows \in BOOLEAN :
         /\ lastT' = t
         /\ lastRet' = propagate(samples_, sgp4_, sgp4BySample_, t, libThrows)
    /\ pc' = "queried"
    /\ UNCHANGED <<input, samples_, sgp4_, sgp4BySample_, keplerianElements_,
                   lastCall, others>>

\* What no accessor changes: the object and the last propagate result.
object == <<input, samples_, sgp4_, sgp4BySample_, keplerianElements_,
            lastT, lastRet>>

\* isEpochStateSet() on the constructed object.
IsEpochStateSet ==
    /\ pc = "built"
    /\ lastCall' = [NoCall EXCEPT !.fn = "isEpochStateSet",
                                  !.ok = isEpochStateSet(samples_, sgp4_, sgp4BySample_)]
    /\ pc' = "asked"
    /\ UNCHANGED <<object, others>>

\* hasSgp4() on the constructed object.
HasSgp4 ==
    /\ pc = "built"
    /\ lastCall' = [NoCall EXCEPT !.fn = "hasSgp4", !.ok = hasSgp4]
    /\ pc' = "asked"
    /\ UNCHANGED <<object, others>>

\* tryGetOrbitalPeriodSeconds(out) on the constructed object.
TryGetOrbitalPeriodSeconds ==
    /\ pc = "built"
    /\ LET ret == tryGetOrbitalPeriodSeconds(sgp4_, sgp4BySample_)
       IN  lastCall' = [NoCall EXCEPT !.fn = "tryGetOrbitalPeriodSeconds",
                                      !.ok = ret.ok,
                                      !.periodSeconds = ret.periodSeconds]
    /\ pc' = "asked"
    /\ UNCHANGED <<object, others>>

\* tryGetKeplerianElements(out) on the constructed object, for every value
\* the caller's object may hold.
TryGetKeplerianElements ==
    /\ pc = "built"
    /\ \E outBefore \in CallerElements :
         LET ret == tryGetKeplerianElements(keplerianElements_, outBefore)
         IN  lastCall' = [NoCall EXCEPT !.fn = "tryGetKeplerianElements",
                                        !.ok = ret.ok,
                                        !.outBefore = outBefore,
                                        !.out = ret.out]
    /\ pc' = "asked"
    /\ UNCHANGED <<object, others>>

Next ==
    \/ Construct
    \/ Propagate
    \/ IsEpochStateSet
    \/ HasSgp4
    \/ TryGetOrbitalPeriodSeconds
    \/ TryGetKeplerianElements

Spec == Init /\ [][Next]_vars

----------------------------------------------------------------------------
\* Vocabulary of the properties.

Built == pc # "new"

Queried == pc = "queried"

\* km -> Earth radii and (x, y, z) -> (x, z, -y), written out.
Converted(pKm, vKmPerS) ==
    [position |-> <<RDiv(pKm[1], kEarthRadiusKm),
                    RDiv(pKm[3], kEarthRadiusKm),
                    RNeg(RDiv(pKm[2], kEarthRadiusKm))>>,
     velocity |-> <<RDiv(vKmPerS[1], kEarthRadiusKm),
                    RDiv(vKmPerS[3], kEarthRadiusKm),
                    RNeg(RDiv(vKmPerS[2], kEarthRadiusKm))>>]

ConvertedSample(k) == Converted(samples_[k].positionKm, samples_[k].velocityKmPerS)

N == Len(samples_)

Dist(k, t) == Abs(samples_[k].t - t)

\* The last call was answered by an SGP4 propagator.
AnsweredBySgp4 ==
    \/ sgp4_ # <<>>
    \/ PerSampleDelegates(samples_, sgp4BySample_, lastT)

\* The last call entered the per-sample selection of lines 505-528.
PerSampleEntered ==
    /\ Queried
    /\ N > 0
    /\ sgp4_ = <<>>
    /\ sgp4BySample_ # <<>>
    /\ Len(sgp4BySample_) = N

DistinctTimes == \A i, j \in 1..N : i # j => samples_[i].t # samples_[j].t

----------------------------------------------------------------------------
\* C1: when the single-sample SGP4 propagator exists, propagate(t) returns
\* for every t, the sample's own timestamp included, what that propagator's
\* propagate(t) returns.
C1_DelegatesToSingleSgp4 ==
    (Queried /\ sgp4_ # <<>>) => lastRet \in Sgp4Returns(sgp4_[1], lastT)

C1_Witness ==
    /\ Queried
    /\ sgp4_ # <<>>
    /\ sgp4_[1].sgp4
    /\ lastT = samples_[1].t
    /\ lastRet # ZeroState
    /\ lastRet # ConvertedSample(1)

\* C2 as stated: the per-sample path selects an index at minimal absolute time
\* difference from t and, among the indices at that distance, the smallest.
C2_SmallestIndexAmongNearest ==
    PerSampleEntered =>
        LET idx == NearestIdx(samples_, lastT)
        IN  /\ \A j \in 1..N : Dist(idx, lastT) <= Dist(j, lastT)
            /\ \A j \in 1..N : Dist(j, lastT) = Dist(idx, lastT) => idx <= j

\* C2 amended: the selected index is at minimal absolute time difference; at
\* equal distance a timestamp before t wins over one after t; among the
\* samples sharing the selected timestamp the last is selected when that
\* timestamp is before t and the first when it is at or after t.
C2_NearestSelection ==
    PerSampleEntered =>
        LET idx == NearestIdx(samples_, lastT)
            ti == samples_[idx].t
        IN  /\ idx \in 1..N
            /\ \A j \in 1..N : Dist(idx, lastT) <= Dist(j, lastT)
            /\ \A j \in 1..N : Dist(j, lastT) = Dist(idx, lastT) => ti <= samples_[j].t
            /\ \A j \in 1..N : samples_[j].t = ti =>
                   IF ti < lastT THEN j <= idx ELSE idx <= j
            /\ DistinctTimes =>
                   \A j \in 1..N : Dist(j, lastT) = Dist(idx, lastT) => idx <= j

\* two samples equally near, one before and one after t
C2_Witness ==
    /\ PerSampleEntered
    /\ \E a, b \in 1..N :
          /\ samples_[a].t < lastT
          /\ lastT < samples_[b].t
          /\ Dist(a, lastT) = Dist(b, lastT)
          /\ NearestIdx(samples_, lastT) = a
          /\ sgp4BySample_[a] # <<>>
          /\ lastRet \in Sgp4Returns(sgp4BySample_[a][1], lastT)
          /\ lastRet # ZeroState

ReachedClamping == Queried /\ N >= 2 /\ ~AnsweredBySgp4

\* C4 as stated: at the clamping step, t at or before the first sample's time
\* returns the first sample's converted state and t at or after the last
\* sample's time returns the last sample's converted state.
C4_ClampBothEnds ==
    ReachedClamping =>
        /\ lastT <= samples_[1].t => lastRet = ConvertedSample(1)
        /\ lastT >= samples_[N].t => lastRet = ConvertedSample(N)

\* C4 amended: at the clamping step, t at or before the first sample's time
\* returns the first sample's converted state; otherwise t at or after the
\* last sample's time returns the last sample's converted state.
C4_ClampFirstThenLast ==
    ReachedClamping =>
        /\ lastT <= samples_[1].t => lastRet = ConvertedSample(1)
        /\ (lastT > samples_[1].t /\ lastT >= samples_[N].t) => lastRet = ConvertedSample(N)

C4_Witness ==
    /\ ReachedClamping
    /\ lastT > samples_[N].t
    /\ samples_[1].t < samples_[N].t
    /\ lastRet = ConvertedSample(N)

Count(seq, x) == Cardinality({i \in 1..Len(seq) : seq[i] = x})

\* C6: after construction samples() holds exactly the argument's samples whose
\* timestamp is not the zero time point (same multiset), in non-decreasing
\* timestamp order.
C6_FilteredAndSorted ==
    Built =>
        /\ \A i \in 1..Len(input) :
              Count(samples_, input[i]) =
                  IF input[i].t = 0 THEN 0 ELSE Count(input, input[i])
        /\ \A k \in 1..N : Count(input, samples_[k]) > 0
        /\ \A i, j \in 1..N : i < j => samples_[i].t <= samples_[j].t

C6_Witness ==
    /\ Built
    /\ N >= 2
    /\ Len(input) > N
    /\ samples_[1].t < samples_[N].t
    /\ \E i, j \in 1..Len(input) :
          i < j /\ input[i].t # 0 /\ input[j].t # 0 /\ input[j].t < input[i].t

\* The argument position a stored sample came from (argument samples are
\* pairwise different).
InputIndex(k) == CHOOSE i \in 1..Len(input) : input[i] = samples_[k]

\* C7: samples with equal timestamps keep, in samples(), the relative order
\* they had in the constructor's argument.
C7_StableOrder ==
    Built =>
        \A i, j \in 1..N :
            (i < j /\ samples_[i].t = samples_[j].t) => InputIndex(i) < InputIndex(j)

\* The single sample's synthesis did not yield a working SGP4 propagator.
SingleSynthesisFailed == N = 1 /\ (sgp4_ = <<>> \/ ~sgp4_[1].sgp4)

\* C8: with one sample left and its synthesis failed (no TLE, or no SGP4
\* propagator from the TLE), the single-sample path is unset: hasSgp4() is
\* false and propagate returns the sample's directly converted state.
C8_FailedSingleSynthesisUnset ==
    (Built /\ SingleSynthesisFailed) =>
        /\ ~hasSgp4
        /\ Queried => lastRet = ConvertedSample(1)

\* No per-sample synthesis yielded a working SGP4 propagator.
NoPerSampleSynthesisSucceeded ==
    /\ N > 1
    /\ anyHaveCov(samples_)
    /\ \A k \in 1..Len(sgp4BySample_) :
          sgp4BySample_[k] = <<>> \/ ~sgp4BySample_[k][1].sgp4

\* C9: with several samples, one at least carrying covariance, and no
\* per-sample synthesis succeeding, the per-sample array is discarded and
\* propagate is pure clamping / linear interpolation.
C9_AllFailedDiscardsArray ==
    (Built /\ NoPerSampleSynthesisSucceeded) =>
        /\ sgp4BySample_ = <<>>
        /\ Queried => lastRet = InterpolationPath(samples_, lastT)

\* The per-sample array is present and the selected slot is empty.
SelectedSlotEmpty ==
    /\ PerSampleEntered
    /\ sgp4BySample_[NearestIdx(samples_, lastT)] = <<>>

\* C10: with the per-sample array present and the selected slot empty,
\* propagate returns what clamping / linear interpolation gives for t.
C10_EmptySlotFallsThrough ==
    SelectedSlotEmpty => lastRet = InterpolationPath(samples_, lastT)

\* the empty slot is selected while another slot holds a working propagator,
\* between two samples
C10_Witness ==
    /\ SelectedSlotEmpty
    /\ \E k \in 1..N : sgp4BySample_[k] # <<>> /\ sgp4BySample_[k][1].sgp4
    /\ samples_[1].t < lastT
    /\ lastT < samples_[N].t
    /\ lastRet # ZeroState

----------------------------------------------------------------------------
\* Sgp4Propagator on its own: constructed from a TLE line pair, then called.

\* The EphemerisPropagator variables, unused by the other machines.
ephemeris == <<input, samples_, sgp4_, sgp4BySample_, pc, lastT, lastRet,
               keplerianElements_, lastCall>>

EphemerisIdle ==
    /\ input = <<>>
    /\ samples_ = <<>>
    /\ sgp4_ = <<>>
    /\ sgp4BySample_ = <<>>
    /\ pc = "none"
    /\ lastT = 0
    /\ lastRet = ZeroState
    /\ keplerianElements_ = <<>>
    /\ lastCall = NoCall

\* What libsgp4 can answer to one TLE line pair (see SynthOutcomes).
LibOutcomes == {"tleThrows", "sgp4Throws", "ok"}

\* Mean motions (rev/day) a parsed line 2 can carry; the field has no sign.
MeanMotions == {0, 1, 16}

\* TLE line pairs handed to the constructor, named by what the library reads
\* from them.
TleLinePairs ==
    {[epoch |-> e, rKm |-> InputPositionKm(k), vKmPerS |-> InputVelocityKmPerS(k),
      meanMotion |-> n] :
        e \in SampleTimes, k \in 1..MaxSamples, n \in MeanMotions}

\* How one call of Sgp4Propagator::propagate leaves: every statement that can
\* throw stands inside try { } catch (...) { return state; }.
Sgp4Propagator_propagate_exit(p, libThrows) ==
    IF ~p.sgp4 THEN "return"
    ELSE IF libThrows THEN "return"
    ELSE "return"

Sgp4Init ==
    /\ sgp \in {[pc |-> "new", lines |-> l, outcome |-> oc, ctx |-> <<>>,
                 op |-> "none", t |-> 0, libThrows |-> FALSE, exit |-> "none",
                 state |-> ZeroState, ok |-> FALSE] :
                    l \in TleLinePairs, oc \in LibOutcomes}
    /\ args = "none"
    /\ result = <<>>
    /\ EphemerisIdle

\* Sgp4Propagator(line1, line2).
Sgp4Construct ==
    /\ sgp.pc = "new"
    /\ sgp' = [sgp EXCEPT !.pc = "built",
                          !.ctx = <<Sgp4Propagator_ctor(sgp.lines, sgp.outcome)>>,
                          !.exit = "return"]
    /\ UNCHANGED <<args, result, ephemeris>>

\* propagate(t); the library call inside may throw.
Sgp4Propagate ==
    /\ sgp.pc = "built"
    /\ \E t \in QueryTimes, libThrows \in BOOLEAN :
         sgp' = [sgp EXCEPT !.pc = "called", !.op = "propagate", !.t = t,
                            !.libThrows = libThrows,
                            !.exit = Sgp4Propagator_propagate_exit(sgp.ctx[1], libThrows),
                            !.state = Sgp4Propagator_propagate(sgp.ctx[1], t, libThrows)]
    /\ UNCHANGED <<args, result, ephemeris>>

\* tryGetMeanElements(outElements).
Sgp4TryGetMeanElements ==
    /\ sgp.pc = "built"
    /\ sgp' = [sgp EXCEPT !.pc = "called", !.op = "tryGetMeanElements",
                          !.exit = "return",
                          !.ok = Sgp4Propagator_tryGetMeanElements(sgp.ctx[1])]
    /\ UNCHANGED <<args, result, ephemeris>>

\* tryGetOrbitalPeriodSeconds(outPeriodSeconds).
Sgp4TryGetOrbitalPeriodSeconds ==
    /\ sgp.pc = "built"
    /\ sgp' = [sgp EXCEPT !.pc = "called", !.op = "tryGetOrbitalPeriodSeconds",
                          !.exit = "return",
                          !.ok = Sgp4Propagator_tryGetOrbitalPeriodSeconds(sgp.ctx[1]).ok]
    /\ UNCHANGED <<args, result, ephemeris>>

Sgp4Next ==
    \/ Sgp4Construct
    \/ Sgp4Propagate
    \/ Sgp4TryGetMeanElements
    \/ Sgp4TryGetOrbitalPeriodSeconds

SpecSgp4 == Sgp4Init /\ [][Sgp4Next]_vars

\* The constructor has returned without a usable SGP4 model.
Sgp4ConstructionFailed == sgp.pc # "new" /\ ~sgp.ctx[1].sgp4

\* C11: the constructor never throws, and after a construction that yields
\* no usable SGP4 model propagate returns the zero state and both accessors
\* return false.
C11_FailedConstructionAllUnavailable ==
    /\ sgp.pc = "built" => sgp.exit = "return"
    /\ (Sgp4ConstructionFailed /\ sgp.pc = "called") =>
          /\ sgp.op = "propagate" => sgp.state = ZeroState
          /\ sgp.op = "tryGetMeanElements" => ~sgp.ok
          /\ sgp.op = "tryGetOrbitalPeriodSeconds" => ~sgp.ok

\* C12: propagate(t) always returns, and when the library fails for the
\* requested time the returned position and velocity are all zero.
C12_PropagateNeverRaises ==
    (sgp.pc = "called" /\ sgp.op = "propagate") =>
        /\ sgp.exit = "return"
        /\ sgp.libThrows =>
              /\ \A i \in 1..3 : sgp.state.position[i] = R(0)
              /\ \A i \in 1..3 : sgp.state.velocity[i] = R(0)

\* a working propagator whose library call threw
C12_Witness ==
    /\ sgp.pc = "called"
    /\ sgp.op = "propagate"
    /\ sgp.ctx[1].sgp4
    /\ sgp.libThrows
    /\ sgp.state = ZeroState

----------------------------------------------------------------------------
\* Kepler::positionEciFromElements (src/src/orbit/Kepler.cpp).
\*
\* An angle is given by its cosine and its sine, both rational, so that the
\* function is computed exactly: the quarter turns and the angles of the
\* 3-4-5 triangle.

Angle(c, s) == [cos |-> c, sin |-> s]

\* std::cos, std::sin
Cos(ang) == ang.cos

Sin(ang) == ang.sin

\* 0, 90 degrees, atan(4/3), 90 degrees + atan(4/3)
OrientationAngles ==
    {Angle(R(1), R(0)), Angle(R(0), R(1)),
     Angle(<<3, 5>>, <<4, 5>>), Angle(<<-4, 5>>, <<3, 5>>)}

\* True anomalies: the four quarter turns, atan(4/3) and 180 degrees + atan(4/3).
TrueAnomalies ==
    {Angle(R(1), R(0)), Angle(R(0), R(1)), Angle(R(-1), R(0)), Angle(R(0), R(-1)),
     Angle(<<3, 5>>, <<4, 5>>), Angle(<<-3, 5>>, <<-4, 5>>)}

\* Largest semi-major axis, in Earth radii.
MaxAxis == 3

Eccentricities == {R(0), <<1, 4>>, <<1, 2>>, <<3, 4>>}

\* OrbitalElements with 0 <= e < 1 and a > 0.
KeplerElements ==
    {[semiMajorAxis |-> R(a), eccentricity |-> e, inclination |-> i,
      raan |-> O, argPeriapsis |-> w] :
        a \in 1..MaxAxis, e \in Eccentricities,
        i \in OrientationAngles, O \in OrientationAngles, w \in OrientationAngles}

\* Variant of Kepler_radius: the semi-latus rectum is taken as a * (1 - e).
Kepler_radius_noSquare(a, e, nu) ==
    LET p == RMul(a, RSub(R(1), e))
    IN  RDiv(p, RAdd(R(1), RMul(e, Cos(nu))))

\* p = a * (1 - e * e); r = p / (1 + e * cos(nu))
Kepler_radius(a, e, nu) ==
    LET p == RMul(a, RSub(R(1), RMul(e, e)))
    IN  RDiv(p, RAdd(R(1), RMul(e, Cos(nu))))

\* The inertial (x, y, z) of lines 54-56: perifocal coordinates rotated by
\* R_z(raan) * R_x(i) * R_z(argp).
Kepler_inertial(elements, nu) ==
    LET a == elements.semiMajorAxis
        e == elements.eccentricity
        r == Kepler_radius(a, e, nu)
        x_p == RMul(r, Cos(nu))
        y_p == RMul(r, Sin(nu))
        z_p == R(0)
        cosO == Cos(elements.raan)
        sinO == Sin(elements.raan)
        cosi == Cos(elements.inclination)
        sini == Sin(elements.inclination)
        cosw == Cos(elements.argPeriapsis)
        sinw == Sin(elements.argPeriapsis)
        r11 == RSub(RMul(cosO, cosw), RMul(RMul(sinO, sinw), cosi))
        r12 == RSub(RMul(RNeg(cosO), sinw), RMul(RMul(sinO, cosw), cosi))
        r13 == RMul(sinO, sini)
        r21 == RAdd(RMul(sinO, cosw), RMul(RMul(cosO, sinw), cosi))
        r22 == RAdd(RMul(RNeg(sinO), sinw), RMul(RMul(cosO, cosw), cosi))
        r23 == RMul(RNeg(cosO), sini)
        r31 == RMul(sinw, sini)
        r32 == RMul(cosw, sini)
        r33 == cosi
    IN  <<RAdd(RAdd(RMul(r11, x_p), RMul(r12, y_p)), RMul(r13, z_p)),
          RAdd(RAdd(RMul(r21, x_p), RMul(r22, y_p)), RMul(r23, z_p)),
          RAdd(RAdd(RMul(r31, x_p), RMul(r32, y_p)), RMul(r33, z_p))>>

\* return {x, -z, y};
Kepler_toRender(v) == <<v[1], RNeg(v[3]), v[2]>>

positionEciFromElements(elements, nu) == Kepler_toRender(Kepler_inertial(elements, nu))

KeplerInit ==
    /\ args \in [elements : KeplerElements, nu : TrueAnomalies]
    /\ result = <<>>
    /\ sgp = "none"
    /\ EphemerisIdle

\* positionEciFromElements(elements, nu)
KeplerPosition ==
    /\ result = <<>>
    /\ result' = <<positionEciFromElements(args.elements, args.nu)>>
    /\ UNCHANGED <<args, sgp, ephemeris>>

KeplerNext == KeplerPosition

SpecKepler == KeplerInit /\ [][KeplerNext]_vars

LCM(a, b) == (a * b) \div GCD(a, b)

\* x^2 + y^2 + z^2 of a rational vector, over the common denominator.
NormSquared(v) ==
    LET D == LCM(LCM(v[1][2], v[2][2]), v[3][2])
        n(i) == v[i][1] * (D \div v[i][2])
    IN  RNorm(n(1) * n(1) + n(2) * n(2) + n(3) * n(3), D * D)

RLeq(a, b) == ~RLess(b, a)

\* C20: for 0 <= e < 1 and a > 0, the point positionEciFromElements returns
\* for any true anomaly lies at a distance from the origin between a(1 - e)
\* and a(1 + e); the true anomaly is an argument, so nothing depends on how
\* it was obtained.
C20_DistanceWithinApsides ==
    result # <<>> =>
        LET a == args.elements.semiMajorAxis
            e == args.elements.eccentricity
            peri == RMul(a, RSub(R(1), e))
            apo == RMul(a, RAdd(R(1), e))
        IN  /\ RLeq(RMul(peri, peri), NormSquared(result[1]))
            /\ RLeq(NormSquared(result[1]), RMul(apo, apo))

\* an eccentric, inclined orbit sampled away from its apsides, strictly
\* between both bounds
C20_Witness ==
    /\ result # <<>>
    /\ args.elements.eccentricity = <<3, 4>>
    /\ args.elements.inclination = Angle(<<3, 5>>, <<4, 5>>)
    /\ args.nu = Angle(<<3, 5>>, <<4, 5>>)
    /\ LET a == args.elements.semiMajorAxis
           e == args.elements.eccentricity
           peri == RMul(a, RSub(R(1), e))
           apo == RMul(a, RAdd(R(1), e))
       IN  /\ RLess(RMul(peri, peri), NormSquared(result[1]))
           /\ RLess(NormSquared(result[1]), RMul(apo, apo))

----------------------------------------------------------------------------
\* The axis remap of the three producers of render-frame positions, applied
\* to one inertial vector: the position (km) the SGP4 library returns for a
\* TLE and a time.

RemapInputs == [lines : TleLinePairs, t : QueryTimes]

\* The inertial vector, in km.
InertialKm(a) == LibFindPosition(a.lines, a.t).Position

\* The same vector in Earth radii, the unit of the Kepler path.
InertialRe(a) == [i \in 1..3 |-> RDiv(InertialKm(a)[i], kEarthRadiusKm)]

\* Kepler::positionEciFromElements, lines 58-60, on that vector.
RenderByKepler(a) == Kepler_toRender(InertialRe(a))

\* Sgp4Propagator::propagate on a propagator whose library returns it.
RenderBySgp4(a) ==
    Sgp4Propagator_propagate(Sgp4Propagator_ctor(a.lines, "ok"), a.t, FALSE).position

\* EphemerisPropagator::toRenderState on a sample that stores it.
RenderByEphemeris(a) ==
    toRenderState([t |-> a.t, positionKm |-> InertialKm(a),
                   velocityKmPerS |-> a.lines.vKmPerS,
                   hasCovarianceUpper |-> FALSE]).position

RemapInit ==
    /\ args \in RemapInputs
    /\ result = <<>>
    /\ sgp = "none"
    /\ EphemerisIdle

RemapKepler ==
    /\ result = <<>>
    /\ result' = <<[producer |-> "Kepler", position |-> RenderByKepler(args)]>>
    /\ UNCHANGED <<args, sgp, ephemeris>>

RemapSgp4 ==
    /\ result = <<>>
    /\ result' = <<[producer |-> "Sgp4Propagator", position |-> RenderBySgp4(args)]>>
    /\ UNCHANGED <<args, sgp, ephemeris>>

RemapEphemeris ==
    /\ result = <<>>
    /\ result' = <<[producer |-> "EphemerisPropagator", position |-> RenderByEphemeris(args)]>>
    /\ UNCHANGED <<args, sgp, ephemeris>>

RemapNext == RemapKepler \/ RemapSgp4 \/ RemapEphemeris

SpecRemap == RemapInit /\ [][RemapNext]_vars

\* C13: the three producers map the same inertial vector to the same render
\* vector.
C13_SameRemapOnEveryPath ==
    result # <<>> =>
        /\ result[1].position = RenderByKepler(args)
        /\ result[1].position = RenderBySgp4(args)
        /\ result[1].position = RenderByEphemeris(args)

----------------------------------------------------------------------------
\* extractOrbitalElements and buildSyntheticTleFromEciState
\* (src/src/orbit/EphemerisPropagator.cpp), guard by guard and character by
\* character.  A string is the sequence of its characters.
\*
\* Both functions start with the same double-precision geometry over
\* (rKm, vKmPerS).  A state vector is described by what that geometry yields
\* for it: r, e and a to the decimals shown, the angles to the four decimals
\* and the mean motion to the eight decimals the TLE prints.

\* a < b for rationals, over the common denominator.
RLt(a, b) ==
    LET g == GCD(a[2], b[2])
    IN  a[1] * (b[2] \div g) < b[1] * (a[2] \div g)

\* A mean motion (rev/day): whole part and eight decimals.
MeanMotion(whole, frac8) == [whole |-> whole, frac8 |-> frac8]

Derived(fin, r, hPos, e, a, mm, inc, raan, argp, M) ==
    [finite |-> fin, r |-> r, hPositive |-> hPos, e |-> e, a |-> a,
     meanMotionRevPerDay |-> mm,
     incDeg |-> inc, raanDeg |-> raan, argpDeg |-> argp, meanAnomDeg |-> M]

\* State vectors (km, km/s) and what lines 246-350 compute for them:
\*   1  r = (7000,0,0),      v = (0,7.546,0)       near-circular low orbit
\*   2  r = (6524.834,6862.875,6448.296), v = (4.901327,5.533756,-1.976341)
\*   3  r = (7000,0,0),      v = (0,4.5,8.9)       inclined, eccentric
\*   4  r = (6000,0,0),      v = (0,8.150697,0)    circular, below the surface
\*   5  r = (6378.137,0,0),  v = (0,7.9,0)         |r| equal to Earth's radius
\*   6  r = (100,0,0),       v = (0,63.1348,0)     circular, 100 km from the centre
\*   7  r = (7000,0,0),      v = (0,12,0)          hyperbolic
\*   8  r = (7000,0,0),      v = (1,0,0)           radial, h = 0
\*   9  r = (2000000,0,0),   v = (0,0.4464,0)      beyond 1e6 km
\*  10  r = (32015.46366168602,0,0), v = (0,0.11158067644463883,0)
\*                                                 e is the double 0.999
\*  11  r = (32015.464,0,0), v = (0,0.111575,0)    e just above 0.999
\*  12  r = (32015.464,0,0), v = (0,0.1115863,0)   e just below 0.999
\*  13  r = (6500,0,0),      v = (0,0.25,0)        a below Earth's radius
\*  14  r = (0,0,0),         v = (0,1,0)           r = 0
\*  15  r = (NaN,0,0),       v = (0,1,0)           not finite
\* The angles are in units of 1e-4 degree.
StateVectors ==
    {Derived(TRUE, R(7000), TRUE, <<141, 10000000>>, <<6999901, 1000>>,
             MeanMotion(14, 82398281), 0, 0, 0, 0),
     Derived(TRUE, <<11456572, 1000>>, TRUE, <<8328534, 10000000>>, <<36127338, 1000>>,
             MeanMotion(1, 26429618), 878691, 2278983, 533849, 76047),
     Derived(TRUE, R(7000), TRUE, <<7466614, 10000000>>, <<27631003, 1000>>,
             MeanMotion(1, 89020013), 631780, 0, 0, 0),
     Derived(TRUE, R(6000), TRUE, <<68, 10000000>>, <<6000041, 1000>>,
             MeanMotion(18, 67976587), 0, 0, 0, 0),
     Derived(TRUE, <<6378137, 1000>>, TRUE, <<13570, 10000000>>, <<6369493, 1000>>,
             MeanMotion(17, 7833081), 0, 0, 0, 0),
     Derived(TRUE, R(100), TRUE, <<4, 10000000>>, R(100),
             MeanMotion(8681, 66449603), 0, 0, 0, 0),
     Derived(TRUE, R(7000), TRUE, <<15288482, 10000000>>, <<-13236313, 1000>>,
             MeanMotion(0, 0), 0, 0, 0, 0),
     Derived(TRUE, R(7000), FALSE, R(0), R(0),
             MeanMotion(0, 0), 0, 0, 0, 0),
     Derived(TRUE, R(2000000), TRUE, <<1368, 10000000>>, <<1999726471, 1000>>,
             MeanMotion(0, 307006), 0, 0, 0, 0),
     Derived(TRUE, <<32015464, 1000>>, TRUE, <<999, 1000>>, <<16015740, 1000>>,
             MeanMotion(4, 28333714), 0, 0, 0, 0),
     Derived(TRUE, <<32015464, 1000>>, TRUE, <<9990001, 10000000>>, <<16015739, 1000>>,
             MeanMotion(4, 28333740), 0, 0, 0, 0),
     Derived(TRUE, <<32015464, 1000>>, TRUE, <<9989999, 10000000>>, <<16015741, 1000>>,
             MeanMotion(4, 28333675), 0, 0, 0, 0),
     Derived(TRUE, R(6500), TRUE, <<9989808, 10000000>>, <<3251657, 1000>>,
             MeanMotion(46, 82153679), 0, 0, 0, 0),
     Derived(TRUE, R(0), FALSE, R(0), R(0),
             MeanMotion(0, 0), 0, 0, 0, 0),
     Derived(FALSE, R(0), FALSE, R(0), R(0),
             MeanMotion(0, 0), 0, 0, 0, 0)}

\* extractOrbitalElements: the return value.  In order: r finite, above
\* Earth's radius and below 1e6; h > 0; e not above 0.999; a above Earth's
\* radius and below 1e6.
extractOrbitalElements(g) ==
    /\ g.finite /\ RLt(kEarthRadiusKm, g.r) /\ RLt(g.r, R(1000000))
    /\ g.hPositive
    /\ ~(RLt(g.e, R(0)) \/ RLt(<<999, 1000>>, g.e))
    /\ RLt(kEarthRadiusKm, g.a) /\ RLt(g.a, R(1000000))

\* Variant of GeometryAccepted: the ceiling 0.999 itself is let through.
GeometryAccepted_ceilingIncluded(g) ==
    /\ g.finite /\ RLt(R(0), g.r)
    /\ g.hPositive
    /\ ~(RLt(g.e, R(0)) \/ RLt(<<999, 1000>>, g.e))
    /\ RLt(R(0), g.a)
    /\ (g.meanMotionRevPerDay.whole > 0 \/ g.meanMotionRevPerDay.frac8 > 0)

\* buildSyntheticTleFromEciState, lines 249-332: r finite and > 0; h > 0;
\* e below 0.999; a > 0; mean motion > 0.
GeometryAccepted(g) ==
    /\ g.finite /\ RLt(R(0), g.r)
    /\ g.hPositive
    /\ ~(RLt(g.e, R(0)) \/ ~RLt(g.e, <<999, 1000>>))
    /\ RLt(R(0), g.a)
    /\ (g.meanMotionRevPerDay.whole > 0 \/ g.meanMotionRevPerDay.frac8 > 0)

\* ---- characters and formatting ----

DigitChars == <<"0", "1", "2", "3", "4", "5", "6", "7", "8", "9">>

IsDigit(c) == \E d \in 1..10 : DigitChars[d] = c

\* c - '0'
DigitValue(c) == (CHOOSE d \in 1..10 : DigitChars[d] = c) - 1

\* operator<< of a non-negative integer
RECURSIVE Decimal(_)
Decimal(n) ==
    IF n < 10 THEN <<DigitChars[n + 1]>>
    ELSE Decimal(n \div 10) \o <<DigitChars[(n % 10) + 1]>>

Repeat(c, n) == [i \in 1..n |-> c]

\* std::setw(width) << std::setfill(fill) << std::right: pads on the left,
\* never cuts.
SetW(width, fill, s) ==
    IF Len(s) >= width THEN s ELSE Repeat(fill, width - Len(s)) \o s

\* std::fixed << std::setprecision(4) of an angle given in 1e-4 degree
Fixed4(x) == Decimal(x \div 10000) \o <<".">> \o SetW(4, "0", Decimal(x % 10000))

\* std::fixed << std::setprecision(8) of a mean motion
Fixed8(mm) == Decimal(mm.whole) \o <<".">> \o SetW(8, "0", Decimal(mm.frac8))

\* std::llround(x * scale) for x >= 0
LLRound(x, scale) ==
    LET g == GCD(x[2], scale)
        num == x[1] * (scale \div g)
        den == x[2] \div g
    IN  (2 * num + den) \div (2 * den)

\* Variant of tleChecksum: minus signs are not counted.
RECURSIVE tleChecksumSum_digitsOnly(_)
tleChecksumSum_digitsOnly(line) ==
    IF line = <<>> THEN 0
    ELSE LET c == Head(line)
         IN  (IF IsDigit(c) THEN DigitValue(c) ELSE 0)
             + tleChecksumSum_digitsOnly(Tail(line))

\* tleChecksum, the loop: digits count their value, '-' counts 1.
RECURSIVE tleChecksumSum(_)
tleChecksumSum(line) ==
    IF line = <<>> THEN 0
    ELSE LET c == Head(line)
         IN  (IF IsDigit(c) THEN DigitValue(c) ELSE IF c = "-" THEN 1 ELSE 0)
             + tleChecksumSum(Tail(line))

tleChecksum(lineWithoutChecksum) == tleChecksumSum(lineWithoutChecksum) % 10

\* Variant of finalizeTleLine: a long line keeps its last 68 characters.
finalizeTleLine_keepsTail(line) ==
    LET fit == IF Len(line) < 68 THEN line \o Repeat(" ", 68 - Len(line))
               ELSE IF Len(line) > 68 THEN SubSeq(line, Len(line) - 67, Len(line))
               ELSE line
    IN  Append(fit, DigitChars[tleChecksum(fit) + 1])

\* finalizeTleLine: pad with spaces or cut to 68 characters, then append the
\* checksum digit.
finalizeTleLine(line) ==
    LET fit == IF Len(line) < 68 THEN line \o Repeat(" ", 68 - Len(line))
               ELSE IF Len(line) > 68 THEN SubSeq(line, 1, 68)
               ELSE line
    IN  Append(fit, DigitChars[tleChecksum(fit) + 1])

\* An epoch as gmtime_r breaks it down: the year, tm_yday and the time of
\* day in half-units of 1e-8 day (432 microseconds), which is what rounding
\* to eight decimals can tell apart.
\* tm_yday is in 0..364, and 365 on the last day of a leap year.
IsLeapYear(y) == (y % 4 = 0 /\ y % 100 # 0) \/ y % 400 = 0

DaysInYear(y) == IF IsLeapYear(y) THEN 366 ELSE 365

Epochs ==
    {tp \in [year : {1999, 2000, 2024}, tm_yday : {0, 44, 364, 365},
             halfTicks : {0, 1, 100000000, 199999998, 199999999}] :
        tp.tm_yday < DaysInYear(tp.year)}

\* Variant of tleEpochFromTimePoint: the carry is not added to the day.
tleEpochFromTimePoint_carryDropped(tp) ==
    LET year2 == tp.year % 100
        doy == tp.tm_yday + 1
        fracScaled == LLRound(<<tp.halfTicks, 2>>, 1)
        carry == fracScaled >= 100000000
        fracScaledClamped == IF carry THEN fracScaled - 100000000 ELSE fracScaled
        outEpoch == SetW(2, "0", Decimal(year2)) \o SetW(3, "0", Decimal(doy))
                    \o <<".">> \o SetW(8, "0", Decimal(fracScaledClamped))
    IN  [ok |-> Len(outEpoch) = 14, epoch |-> outEpoch]

\* tleEpochFromTimePoint: [ok, epoch string].  The day fraction is always in
\* [0, 1); rounding it up to 1 carries into the day of year.
tleEpochFromTimePoint(tp) ==
    LET year2 == tp.year % 100
        doy == tp.tm_yday + 1
        fracScaled == LLRound(<<tp.halfTicks, 2>>, 1)
        carry == fracScaled >= 100000000
        fracScaledClamped == IF carry THEN fracScaled - 100000000 ELSE fracScaled
        doyFinal == IF carry THEN doy + 1 ELSE doy
        outEpoch == SetW(2, "0", Decimal(year2)) \o SetW(3, "0", Decimal(doyFinal))
                    \o <<".">> \o SetW(8, "0", Decimal(fracScaledClamped))
    IN  [ok |-> Len(outEpoch) = 14, epoch |-> outEpoch]

Line1Head == <<"1", " ", "0", "0", "0", "0", "1", "U", " ", "0", "0", "0", "0", "0", "A", " ", " ", " ">>

Line1Tail == <<" ", " ", ".", "0", "0", "0", "0", "0", "0", "0", "0", " ", " ", "0", "0", "0", "0", "0", "-", "0", " ", " ", "0", "0", "0", "0", "0", "-", "0", " ", "0", " ", " ", "9", "9", "9">>

Line2Head == <<"2", " ", "0", "0", "0", "0", "1">>

\* l1.str()
Line1Layout(epochStr) == Line1Head \o epochStr \o Line1Tail

\* l2.str()
Line2Layout(g) ==
    LET ecc7 == LET x == LLRound(g.e, 10000000)
                IN  IF x < 0 THEN 0 ELSE IF x > 9999999 THEN 9999999 ELSE x
    IN  Line2Head
        \o <<" ">> \o SetW(8, " ", Fixed4(g.incDeg))
        \o <<" ">> \o SetW(8, " ", Fixed4(g.raanDeg))
        \o <<" ">> \o SetW(7, "0", Decimal(ecc7))
        \o <<" ">> \o SetW(8, " ", Fixed4(g.argpDeg))
        \o <<" ">> \o SetW(8, " ", Fixed4(g.meanAnomDeg))
        \o <<" ">> \o SetW(11, " ", Fixed8(g.meanMotionRevPerDay))
        \o SetW(5, " ", Decimal(1))

NoTle == [ok |-> FALSE, line1 |-> <<>>, line2 |-> <<>>]

\* buildSyntheticTleFromEciState(epoch, rKm, vKmPerS, outLine1, outLine2)
buildSyntheticTle(epoch, g) ==
    IF ~GeometryAccepted(g) THEN NoTle
    ELSE LET ep == tleEpochFromTimePoint(epoch)
         IN  IF ~ep.ok THEN NoTle
             ELSE LET outLine1 == finalizeTleLine(Line1Layout(ep.epoch))
                      outLine2 == finalizeTleLine(Line2Layout(g))
                  IN  [ok |-> Len(outLine1) = 69 /\ Len(outLine2) = 69,
                       line1 |-> outLine1, line2 |-> outLine2]

TleInit ==
    /\ args \in [epoch : Epochs, g : StateVectors]
    /\ result = <<>>
    /\ sgp = "none"
    /\ EphemerisIdle

\* extractOrbitalElements(rKm, vKmPerS, outElements)
ExtractElements ==
    /\ result = <<>>
    /\ result' = <<[fn |-> "extractOrbitalElements",
                    ok |-> extractOrbitalElements(args.g),
                    line1 |-> <<>>, line2 |-> <<>>]>>
    /\ UNCHANGED <<args, sgp, ephemeris>>

\* buildSyntheticTleFromEciState(epoch, rKm, vKmPerS, outLine1, outLine2)
BuildTle ==
    /\ result = <<>>
    /\ LET b == buildSyntheticTle(args.epoch, args.g)
       IN  result' = <<[fn |-> "buildSyntheticTleFromEciState",
                        ok |-> b.ok, line1 |-> b.line1, line2 |-> b.line2]>>
    /\ UNCHANGED <<args, sgp, ephemeris>>

TleNext == ExtractElements \/ BuildTle

SpecTle == TleInit /\ [][TleNext]_vars

\* The last call was fn.
Called(fn) == result # <<>> /\ result[1].fn = fn

C15_CeilingRejectedByBoth ==
    (result # <<>> /\ ~RLt(args.g.e, <<999, 1000>>)) => ~result[1].ok

\* The guards of extractOrbitalElements other than the one on e.
ExtractSizeGuardsPass ==
    /\ args.g.finite
    /\ args.g.hPositive
    /\ RLt(kEarthRadiusKm, args.g.r) /\ RLt(args.g.r, R(1000000))
    /\ RLt(kEarthRadiusKm, args.g.a) /\ RLt(args.g.a, R(1000000))

\* C15: an eccentricity above 0.999 makes both functions return false; an
\* eccentricity of exactly 0.999 makes buildSyntheticTleFromEciState return
\* false, and extractOrbitalElements return true when its other guards pass.
C15_AboveCeilingRejectedByBoth ==
    /\ (result # <<>> /\ RLt(<<999, 1000>>, args.g.e)) => ~result[1].ok
    /\ (Called("buildSyntheticTleFromEciState") /\ args.g.e = <<999, 1000>>) =>
           ~result[1].ok
    /\ (Called("extractOrbitalElements") /\ args.g.e = <<999, 1000>>
           /\ ExtractSizeGuardsPass) => result[1].ok

\* the builder has refused a state vector with e = 0.999 whose other
\* quantities are in range
C15_Witness ==
    /\ Called("buildSyntheticTleFromEciState")
    /\ args.g.e = <<999, 1000>>
    /\ ExtractSizeGuardsPass
    /\ ~result[1].ok

\* The builder has emitted its two lines.
Emitted == Called("buildSyntheticTleFromEciState") /\ result[1].line1 # <<>>

\* Sum of the digit values among the first n characters of line.
RECURSIVE DigitSum(_, _)
DigitSum(line, n) ==
    IF n = 0 THEN 0
    ELSE DigitSum(line, n - 1) + (IF IsDigit(line[n]) THEN DigitValue(line[n]) ELSE 0)

MinusCount(line, n) == Cardinality({i \in 1..n : line[i] = "-"})

EndsInChecksum(line) ==
    /\ Len(line) > 68
    /\ line[Len(line)] = DigitChars[((DigitSum(line, 68) + MinusCount(line, 68)) % 10) + 1]

\* C16: each emitted line ends in the digit (sum of the digit characters +
\* number of '-' characters) mod 10, taken over its first 68 characters.
C16_LinesEndInChecksum ==
    Emitted => EndsInChecksum(result[1].line1) /\ EndsInChecksum(result[1].line2)

\* two lines are out, the first with its two minus signs and a checksum
\* that the digits alone would not give
C16_Witness ==
    /\ Emitted
    /\ MinusCount(result[1].line1, 68) = 2
    /\ result[1].line1[69] # DigitChars[(DigitSum(result[1].line1, 68) % 10) + 1]

\* layout padded with spaces or cut to 68 characters
Fit68(layout) == [i \in 1..68 |-> IF i <= Len(layout) THEN layout[i] ELSE " "]

IsFinalized(line, layout) ==
    /\ Len(line) = 69
    /\ SubSeq(line, 1, 68) = Fit68(layout)
    /\ IsDigit(line[69])

\* C17: when the builder returns true, each of its two lines has 69
\* characters: the 68 first characters of the layout, padded or cut, and
\* one digit.
C17_TwoLinesOf69 ==
    (Called("buildSyntheticTleFromEciState") /\ result[1].ok) =>
        /\ IsFinalized(result[1].line1,
                       Line1Layout(tleEpochFromTimePoint(args.epoch).epoch))
        /\ IsFinalized(result[1].line2, Line2Layout(args.g))

\* success on a state vector whose mean motion does not fit its 11 columns,
\* so that the layout of line 2 is cut
C17_Witness ==
    /\ Called("buildSyntheticTleFromEciState")
    /\ result[1].ok
    /\ Len(Line2Layout(args.g)) > 68
    /\ Len(result[1].line2) = 69

----------------------------------------------------------------------------
\* OrbitSampler::sampleOrbitPolyline (src/src/orbit/OrbitSampler.cpp).
\* Angles are counted in revolutions, as exact rationals: kTwoPi is 1.

\* Largest segment count asked for.
MaxSegments == 10

SegmentCounts == (-2)..MaxSegments

\* elements.meanAnomalyDeg, in whole degrees
MeanAnomaliesDeg == {-450, -90, 0, 45, 359, 360, 725}

SamplerElements ==
    [semiMajorAxis : {R(1), R(2)}, eccentricity : {R(0), <<1, 2>>},
     meanAnomalyDeg : MeanAnomaliesDeg]

\* Variant of ClampSegments: the floor is 1.
ClampSegments_floorOne(segments) == IF segments < 1 THEN 1 ELSE segments

\* if (segments < 8) segments = 8;
ClampSegments(segments) == IF segments < 8 THEN 8 ELSE segments

\* std::fmod(x, kTwoPi): x minus the whole revolutions in it, counted
\* towards zero, so that the result has the sign of x.
FmodRev(x) ==
    LET whole == IF x[1] >= 0 THEN x[1] \div x[2] ELSE -((-x[1]) \div x[2])
    IN  RSub(x, R(whole))

\* Variant of SampleMeanAnomaly: the revolution is divided into segments + 1.
SampleMeanAnomaly_openEnd(meanAnomalyDeg, s, segments) ==
    FmodRev(RAdd(RNorm(meanAnomalyDeg, 360), RNorm(s, segments + 1)))

\* meanAnomaly0 = meanAnomalyDeg * (kTwoPi / 360); t = s / segments;
\* M = fmod(meanAnomaly0 + t * kTwoPi, kTwoPi)
SampleMeanAnomaly(meanAnomalyDeg, s, segments) ==
    FmodRev(RAdd(RNorm(meanAnomalyDeg, 360), RNorm(s, segments)))

\* Lines 31-42: eight iterations E = M + e sin(E) from E = M, the true
\* anomaly 2 atan2(..sin(E/2), ..cos(E/2)), positionEciFromElements and the
\* three casts to float.  sin, cos and the position repeat after one
\* revolution, so the point is a function of the elements and of M up to
\* whole revolutions; it is named by them, coordinate by coordinate.
SamplePoint(elements, M) ==
    LET at == IF RLess(M, R(0)) THEN RAdd(M, R(1)) ELSE M
    IN  [c \in 1..3 |-> [coordinate |-> c,
                         semiMajorAxis |-> elements.semiMajorAxis,
                         eccentricity |-> elements.eccentricity,
                         meanAnomalyRev |-> at]]

\* The loop for (s = 0; s <= segments; ++s), from s on.
RECURSIVE SampleFrom(_, _, _)
SampleFrom(elements, s, segments) ==
    IF s > segments THEN <<>>
    ELSE SamplePoint(elements, SampleMeanAnomaly(elements.meanAnomalyDeg, s, segments))
         \o SampleFrom(elements, s + 1, segments)

\* sampleOrbitPolyline(elements, segments): the floats pushed, in order.
sampleOrbitPolyline(elements, segments) ==
    SampleFrom(elements, 0, ClampSegments(segments))

SamplerInit ==
    /\ args \in [elements : SamplerElements, segments : SegmentCounts]
    /\ result = <<>>
    /\ sgp = "none"
    /\ EphemerisIdle

\* sampleOrbitPolyline(elements, segments)
SampleOrbit ==
    /\ result = <<>>
    /\ result' = <<sampleOrbitPolyline(args.elements, args.segments)>>
    /\ UNCHANGED <<args, sgp, ephemeris>>

SamplerNext == SampleOrbit

SpecSampler == SamplerInit /\ [][SamplerNext]_vars

\* The p-th point (p from 1) of a float sequence.
PointOf(out, p) == SubSeq(out, 3 * p - 2, 3 * p)

\* C18: sampleOrbitPolyline returns max(segments, 8) + 1 points of three
\* floats, for segment counts below 8, zero and negative included.
C18_PointCount ==
    result # <<>> =>
        LET n == IF args.segments > 8 THEN args.segments ELSE 8
        IN  Len(result[1]) = 3 * (n + 1)

\* a negative segment count has given nine points
C18_Witness ==
    /\ result # <<>>
    /\ args.segments < 0
    /\ Len(result[1]) = 27

\* C19: the first and the last point of the polyline are equal, for every
\* epoch mean anomaly and every segment count.
C19_ClosedPolyline ==
    result # <<>> =>
        /\ Len(result[1]) >= 6
        /\ PointOf(result[1], 1) = PointOf(result[1], Len(result[1]) \div 3)

\* a negative epoch mean anomaly off the whole revolutions, more than eight
\* segments: the ends meet and the second point is another one
C19_Witness ==
    /\ result # <<>>
    /\ args.elements.meanAnomalyDeg = -450
    /\ args.segments > 8
    /\ PointOf(result[1], 1) = PointOf(result[1], Len(result[1]) \div 3)
    /\ PointOf(result[1], 1) # PointOf(result[1], 2)

----------------------------------------------------------------------------
\* The accessors of EphemerisPropagator.

Asked(fn) == pc = "asked" /\ lastCall.fn = fn

C22_KeplerianFromFirstSample ==
    Asked("tryGetKeplerianElements") =>
        LET extracted == Len(samples_) > 0 /\ ExtractionSucceeds(samples_[1])
        IN  /\ lastCall.ok <=> extracted
            /\ lastCall.ok => lastCall.out = ExtractedElements(samples_[1])
            /\ ~lastCall.ok => lastCall.out = lastCall.outBefore

\* Success without any SGP4 path, from a first sample whose elements differ
\* from what the last sample would give.
C22_Witness ==
    /\ Asked("tryGetKeplerianElements")
    /\ lastCall.ok
    /\ ~hasSgp4
    /\ Len(samples_) > 1
    /\ ~ExtractionSucceeds(samples_[Len(samples_)])

\* Failure although an SGP4 path exists; the caller's object held elements of
\* another satellite and still does.
C22_WitnessFailure ==
    /\ Asked("tryGetKeplerianElements")
    /\ ~lastCall.ok
    /\ hasSgp4
    /\ lastCall.outBefore # DefaultElements
    /\ lastCall.out = lastCall.outBefore

----------------------------------------------------------------------------
\* The epoch field of line 1 (columns 19 to 32).

EpochField == SubSeq(result[1].line1, 19, 32)

\* The number a string of decimal digits writes.
RECURSIVE NumberOf(_)
NumberOf(str) ==
    IF str = <<>> THEN 0
    ELSE 10 * NumberOf(SubSeq(str, 1, Len(str) - 1)) + DigitValue(str[Len(str)])

AllDigits(str) == \A i \in 1..Len(str) : IsDigit(str[i])

YearDigits == SubSeq(EpochField, 1, 2)

DayDigits == SubSeq(EpochField, 3, 5)

FractionDigits == SubSeq(EpochField, 7, 14)

\* The day fraction in units of 1e-8 day, rounded half away from zero.
RoundedFraction == (args.epoch.halfTicks + 1) \div 2

\* C24: the epoch field of an emitted line 1 is 14 characters: the year
\* modulo 100 on two digits, the day of year on three, a point, and the day
\* fraction rounded to 1e-8 on eight digits; a fraction that rounds to
\* 1.00000000 is written 00000000 and the day of year is one more.
C24_EpochField ==
    Emitted =>
        /\ Len(EpochField) = 14
        /\ AllDigits(YearDigits) /\ AllDigits(DayDigits) /\ AllDigits(FractionDigits)
        /\ EpochField[6] = "."
        /\ NumberOf(YearDigits) = args.epoch.year % 100
        /\ IF RoundedFraction = 100000000
           THEN /\ NumberOf(FractionDigits) = 0
                /\ NumberOf(DayDigits) = args.epoch.tm_yday + 2
           ELSE /\ NumberOf(FractionDigits) = RoundedFraction
                /\ NumberOf(DayDigits) = args.epoch.tm_yday + 1

\* A line 1 whose epoch was written after the rounding carried into the day.
C24_Witness ==
    /\ Emitted
    /\ RoundedFraction = 100000000
    /\ NumberOf(DayDigits) = 46
    /\ NumberOf(FractionDigits) = 0

\* C29: the day of year written in an emitted epoch is between 1 and the
\* number of days of the year written next to it.
C29_DayOfYearWithinYear ==
    Emitted =>
        /\ 1 <= NumberOf(DayDigits)
        /\ NumberOf(DayDigits) <= DaysInYear(args.epoch.year)

----------------------------------------------------------------------------
\* The SGP4 members of a constructed EphemerisPropagator.

\* C25: the per-sample array is empty, or it has one slot per stored sample
\* and at least one slot is not null; a slot that is not null belongs to a
\* sample with covariance.
C25_ArrayEmptyOrAligned ==
    Built =>
        \/ sgp4BySample_ = <<>>
        \/ /\ Len(sgp4BySample_) = Len(samples_)
           /\ \E k \in 1..Len(sgp4BySample_) : sgp4BySample_[k] # <<>>
           /\ \A k \in 1..Len(sgp4BySample_) :
                 sgp4BySample_[k] # <<>> => samples_[k].hasCovarianceUpper

\* An array with a null slot for a sample with covariance (its TLE could not
\* be built), a null slot for a sample without, and a filled slot.
C25_Witness ==
    /\ Built
    /\ Len(sgp4BySample_) = 3
    /\ \E i, j, k \in 1..3 :
          /\ sgp4BySample_[i] = <<>> /\ samples_[i].hasCovarianceUpper
          /\ sgp4BySample_[j] = <<>> /\ ~samples_[j].hasCovarianceUpper
          /\ sgp4BySample_[k] # <<>>

\* C26: the per-sample array is not empty only when every stored sample has
\* covariance and at least one synthesis yielded a working propagator.
C26_ArrayOnlyWhenAllCov ==
    (Built /\ sgp4BySample_ # <<>>) =>
        /\ \A k \in 1..Len(samples_) : samples_[k].hasCovarianceUpper
        /\ \E k \in 1..Len(sgp4BySample_) :
              sgp4BySample_[k] # <<>> /\ sgp4BySample_[k][1].sgp4

\* C27: the single-sample propagator is set only when exactly one sample is
\* stored and its synthesis yielded a working propagator; it is never set
\* together with a per-sample array.
C27_SingleOnlyWhenOneSample ==
    (Built /\ sgp4_ # <<>>) =>
        /\ Len(samples_) = 1
        /\ sgp4_[1].sgp4
        /\ sgp4BySample_ = <<>>


\* Nothing is left after the filtering: no argument sample, or only samples
\* with the zero timestamp.
EmptyAfterFiltering == \A i \in 1..Len(input) : input[i].t = 0

\* C28: an EphemerisPropagator constructed from no sample, or from samples
\* that all have the zero timestamp, returns the all-zero state from
\* propagate at every time, and false from isEpochStateSet, hasSgp4,
\* tryGetKeplerianElements and tryGetOrbitalPeriodSeconds.
C28_EmptyListAnswersNothing ==
    (Built /\ EmptyAfterFiltering) =>
        /\ Queried => lastRet = ZeroState
        /\ pc = "asked" => ~lastCall.ok

\* tryGetKeplerianElements answered false on an object constructed from
\* samples that carry covariance and an extractable state but the zero
\* timestamp.
C28_Witness ==
    /\ Asked("tryGetKeplerianElements")
    /\ Len(input) > 0
    /\ EmptyAfterFiltering
    /\ input[1].hasCovarianceUpper
    /\ ExtractionSucceeds(input[1])
    /\ ~lastCall.ok

\* propagate answered at a time after the zero time point on such an object.
C28_WitnessPropagate ==
    /\ Queried
    /\ Len(input) > 0
    /\ EmptyAfterFiltering
    /\ lastT > 0
    /\ lastRet = ZeroState


\* The last call reached the bracketing search of lines 542-546: no SGP4
\* propagator answered, and t lies strictly between the first and the last
\* of two or more samples.
ReachedSearch ==
    /\ ReachedClamping
    /\ samples_[1].t < lastT
    /\ lastT < samples_[N].t

C30_WitnessOnSample ==
    /\ ReachedSearch
    /\ BracketingSearch(samples_, lastT).u = R(1)

====
